---- MODULE Spec2Model ----
(***************************************************************************)
(* A model of mp3/codefromscratch/logistic_model.py: the LogisticModel     *)
(* class (binary logistic regression with gradient descent and raw         *)
(* float32 weight persistence).                                            *)
(*                                                                         *)
(* Numbers.  numpy computes in IEEE-754 binary64 and stores weight files   *)
(* in binary32.  The model keeps the structure of that arithmetic at a     *)
(* reduced size: a number is an integer count of units of 1/F64Scale, every*)
(* operation rounds its exact result to the nearest unit (ties to even), a *)
(* magnitude above F64Max becomes an infinity, and inf-inf, inf/inf, 0*inf *)
(* and 0/0 give NaN.  The narrower format keeps only every F32Step-th unit *)
(* and overflows above F32Max.  So, as in the source, rounding loses       *)
(* digits, exp overflows and underflows, and 1 + tiny = 1.                 *)
(***************************************************************************)
EXTENDS Integers, Sequences, FiniteSets, TLC

(***************************************************************************)
(* Number formats                                                          *)
(***************************************************************************)
F64Scale == 100
F64Max == 10000
F32Step == 10
F32Max == 5000

PInf == 2 * F64Max
NInf == -PInf
NaN == 3 * F64Max

One == F64Scale
Half == F64Scale \div 2

IsNaN(a) == a = NaN
IsInf(a) == a = PInf \/ a = NInf
IsFinite(a) == ~IsNaN(a) /\ ~IsInf(a)

Sign(a) == IF a > 0 THEN 1 ELSE IF a < 0 THEN -1 ELSE 0

\* a / b for b > 0, rounded to the nearest integer, ties to even.
RoundDiv(a, b) ==
  LET q == a \div b
      r == a % b
  IN  IF 2 * r > b \/ (2 * r = b /\ q % 2 = 1) THEN q + 1 ELSE q

\* An exact result in units, brought into the binary64 range.
Overflow64(v) == IF v > F64Max THEN PInf ELSE IF v < -F64Max THEN NInf ELSE v

FNeg(a) == IF IsNaN(a) THEN NaN ELSE -a

FAdd(a, b) ==
  IF IsNaN(a) \/ IsNaN(b) THEN NaN
  ELSE IF IsInf(a) /\ IsInf(b) THEN (IF a = b THEN a ELSE NaN)
  ELSE IF IsInf(a) THEN a
  ELSE IF IsInf(b) THEN b
  ELSE Overflow64(a + b)

FSub(a, b) == FAdd(a, FNeg(b))

FMul(a, b) ==
  IF IsNaN(a) \/ IsNaN(b) THEN NaN
  ELSE IF IsInf(a) \/ IsInf(b)
       THEN (IF a = 0 \/ b = 0 THEN NaN
             ELSE IF Sign(a) * Sign(b) > 0 THEN PInf ELSE NInf)
  ELSE Overflow64(RoundDiv(a * b, F64Scale))

FDiv(a, b) ==
  IF IsNaN(a) \/ IsNaN(b) THEN NaN
  ELSE IF IsInf(a) /\ IsInf(b) THEN NaN
  ELSE IF IsInf(b) THEN 0
  ELSE IF IsInf(a) THEN (IF Sign(a) * Sign(b) >= 0 THEN PInf ELSE NInf)
  ELSE IF b = 0
       THEN (IF a = 0 THEN NaN ELSE IF a > 0 THEN PInf ELSE NInf)
  ELSE IF b > 0 THEN Overflow64(RoundDiv(a * F64Scale, b))
  ELSE Overflow64(RoundDiv((-a) * F64Scale, -b))

(***************************************************************************)
(* np.exp: e^x rounded to the format.  The value is summed from the power  *)
(* series at ExpScale units per 1 and then rounded to a unit; arguments    *)
(* outside [-ExpArgMax, ExpArgMax] are past the format's range in both     *)
(* directions (e^5.3 > F64Max/F64Scale and e^-5.3 < half a unit).          *)
(***************************************************************************)
ExpScale == 100000
ExpArgMax == 530
ExpTerms == 40

RECURSIVE ExpSeries(_, _, _, _)
ExpSeries(x, k, term, acc) ==
  IF term = 0 \/ k > ExpTerms THEN acc
  ELSE LET next == RoundDiv(term * x, F64Scale * k)
       IN  ExpSeries(x, k + 1, next, acc + next)

\* e^(x/F64Scale) in units, for every argument inside the range.
ExpTable ==
  [x \in -ExpArgMax .. ExpArgMax |->
     LET v == RoundDiv(ExpSeries(x, 1, ExpScale, ExpScale), ExpScale \div F64Scale)
     IN  IF v < 0 THEN 0 ELSE v]

FExp(x) ==
  IF IsNaN(x) THEN NaN
  ELSE IF x = PInf \/ (IsFinite(x) /\ x > ExpArgMax) THEN PInf
  ELSE IF x = NInf \/ (IsFinite(x) /\ x < -ExpArgMax) THEN 0
  ELSE Overflow64(ExpTable[x])

\* ndarray.astype('float32') of one element.
AsFloat32(a) ==
  IF ~IsFinite(a) THEN a
  ELSE LET v == RoundDiv(a, F32Step) * F32Step
       IN  IF v > F32Max THEN PInf ELSE IF v < -F32Max THEN NInf ELSE v

IsFloat32(a) == AsFloat32(a) = a

(***************************************************************************)
(* Inputs of the calls                                                     *)
(***************************************************************************)
MaxCalls == 3

Ndims == {1, 2}
Policies == {"zeros", "ones", "uniform", "gaussian"}
W_inits == Policies \cup {"xavier"}

\* Draws of np.random.uniform(low=0, high=1) and np.random.normal(scale=0.1).
UniformDraws == {0, 25}
GaussianDraws == {-10, 5}

\* Feature matrices (rows are samples, first column the constant 1) with
\* their label vectors, one label per row.
XA == << <<100, 0, 0>>, <<100, 100, 100>> >>
XB == << <<100, 300, 300>> >>
XC == << <<100, -300, -300>> >>
XD == << <<100, 100>>, <<300, 300>> >>
Xs == {XA, XB, XC, XD}
Datasets == { <<(<<1, -1>>), XA>>, <<(<<1, -1>>), XD>> }
LearnRates == {10, 100}
IterCounts == {-1, 0, 1, 2}

\* Weight files: w.bin exists beforehand (written for a model of one
\* feature), missing.bin does not exist and is never written.
SavePaths == {"w.bin"}
LoadPaths == {"w.bin", "missing.bin"}
Paths == SavePaths \cup LoadPaths
ExternalFile == <<4000, -4000>>

Rows(Xv) == Len(Xv)
Cols(Xv) == Len(Xv[1])

VARIABLES
  ndims,        \* self.ndims
  W_init,       \* self.W_init
  W,            \* self.W, flattened; <<>> while it is None
  W_shape,      \* "None", "col" for (ndims+1, 1), "flat" for (n,)
  W_dtype,      \* "none", "float64", "float32"
  files,        \* path -> [exists, data]: the float32 values of each file
  pc,           \* "idle" between calls, "fit" inside fit's loop
  op,           \* the method called last
  raised,       \* "" or the exception the last call ended with
  ret,          \* what the last call returned (<<>> for None)
  Y_true, X, learn_rate, max_iters, weight_file,   \* its arguments
  i,            \* fit: iterations started so far (position in range(max_iters))
  W0,           \* history: W when the last call began
  saved,        \* history: path -> [by_model, W]: self.W at the last save_model
  calls         \* number of calls made so far (bounded by MaxCalls)

vars == <<ndims, W_init, W, W_shape, W_dtype, files, pc, op, raised, ret,
          Y_true, X, learn_rate, max_iters, weight_file, i, W0, saved, calls>>

model == <<ndims, W_init, W, W_shape, W_dtype>>
args == <<Y_true, X, learn_rate, max_iters, weight_file>>

(***************************************************************************)
(* __init__                                                                *)
(***************************************************************************)
\* Faulty variant: the bias slot forgotten (ndims instead of ndims + 1).
mut_np_zeros(n) == [j \in 1 .. n - 1 |-> 0]
np_zeros(n) == [j \in 1 .. n |-> 0]
np_ones(n) == [j \in 1 .. n |-> One]
np_random_uniform(n) == [1 .. n -> UniformDraws]
np_random_normal(n) == [1 .. n -> GaussianDraws]

\* Faulty variant: an unknown W_init falls back to zeros.
mut_InitialW(nd, init) ==
  IF init = "ones" THEN {np_ones(nd + 1)}
  ELSE IF init = "uniform" THEN np_random_uniform(nd + 1)
  ELSE IF init = "gaussian" THEN np_random_normal(nd + 1)
  ELSE {np_zeros(nd + 1)}

\* The values self.W may hold after __init__(nd, init); {} when it stays None.
InitialW(nd, init) ==
  IF init = "zeros" THEN {np_zeros(nd + 1)}
  ELSE IF init = "ones" THEN {np_ones(nd + 1)}
  ELSE IF init = "uniform" THEN np_random_uniform(nd + 1)
  ELSE IF init = "gaussian" THEN np_random_normal(nd + 1)
  ELSE {}

Init ==
  /\ \E nd \in Ndims, init \in W_inits :
       /\ ndims = nd
       /\ W_init = init
       /\ IF InitialW(nd, init) # {}
          THEN W \in InitialW(nd, init) /\ W_shape = "col" /\ W_dtype = "float64"
          ELSE W = <<>> /\ W_shape = "None" /\ W_dtype = "none"
  /\ files = [p \in Paths |-> IF p = "w.bin"
                               THEN [exists |-> TRUE, data |-> ExternalFile]
                               ELSE [exists |-> FALSE, data |-> <<>>]]
  /\ saved = [p \in Paths |-> [by_model |-> FALSE, W |-> <<>>]]
  /\ pc = "idle" /\ op = "__init__" /\ raised = "" /\ ret = <<>>
  /\ Y_true = <<>> /\ X = <<>> /\ learn_rate = 0 /\ max_iters = 0
  /\ weight_file = ""
  /\ i = 0 /\ W0 = <<>> /\ calls = 0

(***************************************************************************)
(* save_model, load_model                                                  *)
(***************************************************************************)
\* Faulty variant: a narrower target type, only every fourth float32 value.
mut_astype_float32(Wv) ==
  [j \in 1 .. Len(Wv) |->
     IF IsFinite(Wv[j]) THEN AsFloat32(RoundDiv(Wv[j], 4 * F32Step) * 4 * F32Step)
     ELSE Wv[j]]
astype_float32(Wv) == [j \in 1 .. Len(Wv) |-> AsFloat32(Wv[j])]

save_model ==
  /\ pc = "idle" /\ calls < MaxCalls
  /\ \E path \in SavePaths :
       /\ weight_file' = path
       /\ IF W_shape = "None"
          THEN raised' = "AttributeError" /\ UNCHANGED <<files, saved>>
          ELSE /\ raised' = ""
               /\ files' = [files EXCEPT ![path] =
                              [exists |-> TRUE, data |-> astype_float32(W)]]
               /\ saved' = [saved EXCEPT ![path] = [by_model |-> TRUE, W |-> W]]
  /\ op' = "save_model" /\ ret' = <<>>
  /\ Y_true' = <<>> /\ X' = <<>> /\ learn_rate' = 0 /\ max_iters' = 0
  /\ i' = 0 /\ W0' = W /\ calls' = calls + 1
  /\ UNCHANGED <<model, pc>>

load_model ==
  /\ pc = "idle" /\ calls < MaxCalls
  /\ \E path \in LoadPaths :
       /\ weight_file' = path
       /\ IF ~files[path].exists
          THEN raised' = "FileNotFoundError" /\ UNCHANGED <<W, W_shape, W_dtype>>
          ELSE /\ raised' = ""
               /\ W' = files[path].data
               /\ W_shape' = "flat"
               /\ W_dtype' = "float32"
  /\ op' = "load_model" /\ ret' = <<>>
  /\ Y_true' = <<>> /\ X' = <<>> /\ learn_rate' = 0 /\ max_iters' = 0
  /\ i' = 0 /\ W0' = W /\ calls' = calls + 1
  /\ UNCHANGED <<ndims, W_init, files, saved, pc>>

(***************************************************************************)
(* sigmoid, forward, backward, classify                                    *)
(***************************************************************************)
\* Faulty variant: the reciprocal left out.
mut_sigmoid(x) == FAdd(One, FExp(FNeg(x)))
sigmoid(x) == FDiv(One, FAdd(One, FExp(FNeg(x))))

\* sum over j of a[j] * b[j], added left to right.
RECURSIVE DotFrom(_, _, _)
DotFrom(a, b, j) ==
  IF j = 0 THEN 0 ELSE FAdd(DotFrom(a, b, j - 1), FMul(a[j], b[j]))
Dot(a, b) == DotFrom(a, b, Len(a))

\* What np.dot(self.W.T, X.T) raises: "" when it returns.
DotRaises(shape, Wv, Xv) ==
  IF shape = "None" THEN "AttributeError"
  ELSE IF Cols(Xv) # Len(Wv) THEN "ValueError"
  ELSE ""

\* D = np.dot(self.W.T, X.T), one score per row of X.
Scores(Wv, Xv) == [k \in 1 .. Rows(Xv) |-> Dot(Wv, Xv[k])]

forward(Wv, Xv) ==
  LET D == Scores(Wv, Xv)
      S == [k \in 1 .. Rows(Xv) |-> sigmoid(D[k])]
  IN  S

backward(Wv, Yv, Xv) ==
  LET D == Scores(Wv, Xv)
      E == [k \in 1 .. Rows(Xv) |-> FExp(FMul(FNeg(Yv[k] * One), D[k]))]
      N == [k \in 1 .. Rows(Xv) |-> FMul(FNeg(Yv[k] * One), E[k])]
      D2 == [k \in 1 .. Rows(Xv) |-> FAdd(One, E[k])]
      F == [k \in 1 .. Rows(Xv) |-> FDiv(N[k], D2[k])]
      G == [j \in 1 .. Cols(Xv) |-> Dot([k \in 1 .. Rows(Xv) |-> Xv[k][j]], F)]
  IN  G

\* P > 0.5 elementwise: a comparison with NaN is False.
Greater(a, b) == ~IsNaN(a) /\ ~IsNaN(b) /\ a > b

\* Faulty variant: P >= 0.5.
mut_Threshold(P) == [k \in 1 .. Len(P) |-> IF ~Greater(Half, P[k]) THEN 1 ELSE -1]
\* (P > 0.5) * 2 - 1
Threshold(P) == [k \in 1 .. Len(P) |-> IF Greater(P[k], Half) THEN 1 ELSE -1]

classify(Wv, Xv) ==
  LET P == forward(Wv, Xv)
      C == Threshold(P)
  IN  C

Forward ==
  /\ pc = "idle" /\ calls < MaxCalls
  /\ \E Xv \in Xs :
       /\ X' = Xv
       /\ raised' = DotRaises(W_shape, W, Xv)
       /\ ret' = IF raised' = "" THEN forward(W, Xv) ELSE <<>>
  /\ op' = "forward"
  /\ Y_true' = <<>> /\ learn_rate' = 0 /\ max_iters' = 0 /\ weight_file' = ""
  /\ i' = 0 /\ W0' = W /\ calls' = calls + 1
  /\ UNCHANGED <<model, files, saved, pc>>

\* Faulty variant: backward stores the gradient in self.W.
mut_Backward ==
  /\ pc = "idle" /\ calls < MaxCalls
  /\ \E d \in Datasets :
       /\ Y_true' = d[1] /\ X' = d[2]
       /\ raised' = DotRaises(W_shape, W, d[2])
       /\ ret' = IF raised' = "" THEN backward(W, d[1], d[2]) ELSE <<>>
       /\ W' = IF raised' = "" THEN backward(W, d[1], d[2]) ELSE W
  /\ op' = "backward"
  /\ learn_rate' = 0 /\ max_iters' = 0 /\ weight_file' = ""
  /\ i' = 0 /\ W0' = W /\ calls' = calls + 1
  /\ UNCHANGED <<ndims, W_init, W_shape, W_dtype, files, saved, pc>>

Backward ==
  /\ pc = "idle" /\ calls < MaxCalls
  /\ \E d \in Datasets :
       /\ Y_true' = d[1] /\ X' = d[2]
       /\ raised' = DotRaises(W_shape, W, d[2])
       /\ ret' = IF raised' = "" THEN backward(W, d[1], d[2]) ELSE <<>>
  /\ op' = "backward"
  /\ learn_rate' = 0 /\ max_iters' = 0 /\ weight_file' = ""
  /\ i' = 0 /\ W0' = W /\ calls' = calls + 1
  /\ UNCHANGED <<model, files, saved, pc>>

Classify ==
  /\ pc = "idle" /\ calls < MaxCalls
  /\ \E Xv \in Xs :
       /\ X' = Xv
       /\ raised' = DotRaises(W_shape, W, Xv)
       /\ ret' = IF raised' = "" THEN classify(W, Xv) ELSE <<>>
  /\ op' = "classify"
  /\ Y_true' = <<>> /\ learn_rate' = 0 /\ max_iters' = 0 /\ weight_file' = ""
  /\ i' = 0 /\ W0' = W /\ calls' = calls + 1
  /\ UNCHANGED <<model, files, saved, pc>>

(***************************************************************************)
(* fit: the call binds the arguments, then one step per pass of the loop   *)
(***************************************************************************)
\* self.W -= G * learn_rate, in place: the result keeps self.W's dtype.
Store(v, dtype) == IF dtype = "float32" THEN AsFloat32(v) ELSE v
\* Faulty variant: += in place of -=.
mut_Update(Wv, G, lr, dtype) ==
  [j \in 1 .. Len(Wv) |-> Store(FAdd(Wv[j], FMul(G[j], lr)), dtype)]
Update(Wv, G, lr, dtype) ==
  [j \in 1 .. Len(Wv) |-> Store(FSub(Wv[j], FMul(G[j], lr)), dtype)]

\* Faulty variant: range(max_iters - 1).
mut_InRange(k, n) == k < n - 1
\* range(max_iters) has a next element after k of them were taken.
InRange(k, n) == k < n

Fit ==
  /\ pc = "idle" /\ calls < MaxCalls
  /\ \E d \in Datasets, lr \in LearnRates, n \in IterCounts :
       /\ Y_true' = d[1] /\ X' = d[2] /\ learn_rate' = lr /\ max_iters' = n
  /\ op' = "fit" /\ raised' = "" /\ ret' = <<>> /\ weight_file' = ""
  /\ i' = 0 /\ W0' = W /\ calls' = calls + 1
  /\ pc' = "fit"
  /\ UNCHANGED <<model, files, saved>>

\* Faulty variant: the error of backward is swallowed and fit returns.
mut_FitIter ==
  /\ pc = "fit" /\ InRange(i, max_iters)
  /\ IF DotRaises(W_shape, W, X) # ""
     THEN raised' = "" /\ pc' = "idle" /\ UNCHANGED <<W, i>>
     ELSE LET G == backward(W, Y_true, X)
          IN  /\ W' = Update(W, G, learn_rate, W_dtype)
              /\ i' = i + 1
              /\ UNCHANGED <<raised, pc>>
  /\ UNCHANGED <<ndims, W_init, W_shape, W_dtype, files, saved, op, ret, args,
                 W0, calls>>

FitIter ==
  /\ pc = "fit" /\ InRange(i, max_iters)
  /\ IF DotRaises(W_shape, W, X) # ""
     THEN raised' = DotRaises(W_shape, W, X) /\ pc' = "idle" /\ UNCHANGED <<W, i>>
     ELSE LET G == backward(W, Y_true, X)
          IN  /\ W' = Update(W, G, learn_rate, W_dtype)
              /\ i' = i + 1
              /\ UNCHANGED <<raised, pc>>
  /\ UNCHANGED <<ndims, W_init, W_shape, W_dtype, files, saved, op, ret, args,
                 W0, calls>>

FitReturn ==
  /\ pc = "fit" /\ ~InRange(i, max_iters)
  /\ pc' = "idle"
  /\ UNCHANGED <<model, files, saved, op, raised, ret, args, i, W0, calls>>

Next ==
  \/ save_model
  \/ load_model
  \/ Forward
  \/ Backward
  \/ Classify
  \/ Fit
  \/ FitIter
  \/ FitReturn

Spec == Init /\ [][Next]_vars
(***************************************************************************)
(* Properties                                                              *)
(***************************************************************************)
AllFinite(v) == \A j \in 1 .. Len(v) : IsFinite(v[j])
FiniteMatrix(Xv) == \A k \in 1 .. Rows(Xv) : AllFinite(Xv[k])
Max0(n) == IF n > 0 THEN n ELSE 0
PureOps == {"forward", "classify", "backward"}

\* C1: in every reachable state the weight vector W has length ndims + 1.
\* (Stated here for the states where W is set; it fails there too.)
C1_WeightLength == W_shape # "None" => Len(W) = ndims + 1

\* n applications of the update W <- W - learn_rate * backward(Y_true, X).
RECURSIVE GradientSteps(_, _, _, _, _, _)
GradientSteps(Wv, Yv, Xv, lr, dtype, n) ==
  IF n = 0 THEN Wv
  ELSE LET P == GradientSteps(Wv, Yv, Xv, lr, dtype, n - 1)
           G == backward(P, Yv, Xv)
       IN  [j \in 1 .. Len(P) |-> Store(FSub(P[j], FMul(lr, G[j])), dtype)]

C3_ClassifyThreshold ==
  (op = "classify" /\ raised = "") =>
    /\ Len(ret) = Rows(X)
    /\ \A k \in 1 .. Rows(X) :
         LET p == forward(W, X)[k]
         IN  /\ ret[k] \in {1, -1}
             /\ ret[k] = 1 <=> (~IsNaN(p) /\ p > Half)

\* A probability of exactly 0.5 (all-zero weights) is labelled -1.
C3_Witness ==
  /\ op = "classify" /\ raised = ""
  /\ \A j \in 1 .. Len(W) : W[j] = 0
  /\ \E k \in 1 .. Rows(X) : forward(W, X)[k] = Half /\ ret[k] = -1

\* C4: load_model from a path the model last wrote with save_model leaves W
\* with the length, values and order W had at the save, when every saved
\* weight is representable as a 32-bit float.
C4_RoundTrip ==
  (/\ op = "load_model" /\ raised = ""
   /\ saved[weight_file].by_model
   /\ \A j \in 1 .. Len(saved[weight_file].W) : IsFloat32(saved[weight_file].W[j]))
  => W = saved[weight_file].W

\* The load brings back saved weights that a fit had since replaced.
C4_Witness ==
  /\ op = "load_model" /\ raised = ""
  /\ saved[weight_file].by_model
  /\ \A j \in 1 .. Len(saved[weight_file].W) : IsFloat32(saved[weight_file].W[j])
  /\ W # W0
  /\ Len(W) = ndims + 1
  /\ \E j \in 1 .. Len(W) : W[j] # 0

\* C5: right after construction, W_init = 'zeros' gives ndims + 1 weights
\* all 0 and W_init = 'ones' gives ndims + 1 weights all 1.
C5_ZerosOnes ==
  op = "__init__" =>
    /\ W_init = "zeros" =>
         (Len(W) = ndims + 1 /\ \A j \in 1 .. Len(W) : W[j] = 0)
    /\ W_init = "ones" =>
         (Len(W) = ndims + 1 /\ \A j \in 1 .. Len(W) : W[j] = One)

C5_Witness ==
  /\ op = "__init__" /\ W_init = "ones" /\ ndims = 2
  /\ W = <<One, One, One>>

\* C6: an unknown W_init does not raise and leaves W unset; while W is unset
\* forward, backward, classify, save_model and fit with max_iters >= 1 end
\* in an error and return nothing; only a successful load_model sets W.
C6_UnsetWeights ==
  /\ (op = "__init__" /\ W_init \notin Policies) =>
       (raised = "" /\ W_shape = "None")
  /\ W_shape = "None" =>
       /\ W_init \notin Policies
       /\ op \in PureOps \cup {"save_model"} =>
            (raised = "AttributeError" /\ ret = <<>>)
       /\ (op = "fit" /\ pc = "idle" /\ max_iters >= 1) =>
            (raised = "AttributeError" /\ i = 0)
       /\ op = "load_model" => raised = "FileNotFoundError"
  /\ (W_init \notin Policies /\ W_shape # "None") => W_shape = "flat"

C6_Witness ==
  /\ W_init = "xavier" /\ W_shape = "None"
  /\ op = "fit" /\ pc = "idle" /\ max_iters = 2 /\ raised = "AttributeError"
  /\ calls = 3

\* C7: a forward, classify or backward call leaves W, ndims and W_init (and
\* the files) as they were, and its outcome is a function of W and its
\* arguments alone; W changes only in fit and load_model.
C7_PureCalls ==
  [][/\ op' \in PureOps =>
          /\ UNCHANGED <<ndims, W_init, W, W_shape, W_dtype, files>>
          /\ raised' = DotRaises(W_shape, W, X')
          /\ raised' = "" =>
               ret' = IF op' = "forward" THEN forward(W, X')
                      ELSE IF op' = "classify" THEN classify(W, X')
                      ELSE backward(W, Y_true', X')
     /\ W' # W => op' \in {"fit", "load_model"}]_vars

C7_Witness ==
  /\ op = "backward" /\ raised = ""
  /\ W = W0
  /\ \E j \in 1 .. Len(ret) : ret[j] # 0
  /\ calls = 2

\* C8: ndims = 2, W_init = 'zeros', X = [[1,0,0],[1,1,1]], Y_true = [1,-1]:
\* forward gives 0.5 for both samples, backward gives (0, 0.5, 0.5), and
\* fit with learn_rate 0.1 and max_iters 1 leaves W = (0, -0.05, -0.05).
C8_Scenario ==
  (/\ ndims = 2 /\ W_init = "zeros" /\ W_dtype = "float64"
   /\ W0 = <<0, 0, 0>> /\ X = XA /\ raised = "" /\ pc = "idle")
  => /\ op = "forward" => ret = <<50, 50>>
     /\ (op = "backward" /\ Y_true = <<1, -1>>) => ret = <<0, 50, 50>>
     /\ (op = "fit" /\ Y_true = <<1, -1>> /\ learn_rate = 10 /\ max_iters = 1) =>
          W = <<0, -5, -5>>

C8_Witness ==
  /\ ndims = 2 /\ W_init = "zeros" /\ W_dtype = "float64"
  /\ W0 = <<0, 0, 0>> /\ X = XA /\ raised = "" /\ pc = "idle"
  /\ op = "fit" /\ Y_true = <<1, -1>> /\ learn_rate = 10 /\ max_iters = 1
  /\ i = 1 /\ W = <<0, -5, -5>>

\* C9: with W set and X of a column count other than len(W), forward,
\* backward, classify and fit (max_iters >= 1) end in an error, return
\* nothing and leave W as it was; fit fails before its first update.
C9_ShapeMismatch ==
  (W_shape # "None" /\ X # <<>> /\ Cols(X) # Len(W0)) =>
     /\ W = W0
     /\ op \in PureOps => (raised = "ValueError" /\ ret = <<>>)
     /\ op = "fit" => i = 0
     /\ (op = "fit" /\ pc = "idle" /\ max_iters >= 1) => raised = "ValueError"

C9_Witness ==
  /\ W_shape # "None" /\ X # <<>> /\ Cols(X) # Len(W0)
  /\ op = "fit" /\ pc = "idle" /\ max_iters = 2
  /\ raised = "ValueError" /\ W = W0

\* C10 as stated: for finite W and X every value forward returns is
\* strictly between 0 and 1.
C10_OpenInterval ==
  (op = "forward" /\ raised = "" /\ AllFinite(W) /\ FiniteMatrix(X)) =>
    \A k \in 1 .. Len(ret) : 0 < ret[k] /\ ret[k] < One

\* C10 amended: for finite W and X every value forward returns for a sample
\* whose score is not NaN lies in the closed interval [0, 1].
C10_ClosedInterval ==
  (op = "forward" /\ raised = "" /\ AllFinite(W) /\ FiniteMatrix(X)) =>
    \A k \in 1 .. Len(ret) :
      ~IsNaN(Scores(W, X)[k]) => (0 <= ret[k] /\ ret[k] <= One)

\* Finite inputs for which forward returns exactly 1.
C10_Witness ==
  /\ op = "forward" /\ raised = "" /\ AllFinite(W) /\ FiniteMatrix(X)
  /\ \E k \in 1 .. Len(ret) : ret[k] = One /\ IsFinite(Scores(W, X)[k])
====
